---- MODULE Spec2Model ----
(***************************************************************************)
(* Model of the inventory comparison app (src/app.py, a Streamlit script). *)
(*                                                                         *)
(* Strings whose characters matter (sheet headers, product names, shelf    *)
(* codes, search keywords) are sequences of one-character strings, so that *)
(* str.strip, str.lower, substring search and code-point ordering are      *)
(* computed and not assumed.  File names are opaque strings.               *)
(* A Python Optional is a sequence of length 0 (None) or 1 (the value).    *)
(* Names of the source that are not ASCII are transliterated:              *)
(*   JANコード -> jan, 個数 -> qty, 商品名 -> name, 棚番 -> shelf,            *)
(*   増減数 -> diff, 減少率(%) -> rate.                                      *)
(***************************************************************************)
EXTENDS Integers, Sequences, FiniteSets, TLC

VARIABLES
    pc,           \* position of the script ("rerun", "login", "stopped", "shown"),
                  \* or of the caller of one function ("start", "done")
    columns,      \* _find_column: the headers of the table
    candidates,   \* _find_column: the ordered alias list
    found,        \* _find_column: the returned Optional header
    xls,          \* _extract_and_merge: the workbook
    main_sheet,   \* _extract_and_merge: index of the sheet with keys and quantities
    master_sheet, \* _extract_and_merge: index of the sheet with keys and product names
    extracted,    \* _extract_and_merge: the returned (DataFrame, error) pair
    valid_frames, \* the usable snapshots of the run, oldest first
    merged,       \* the aggregated table of the run
    search_query, \* the keyword text input
    selected_filter,   \* the stock select box
    selected_decrease, \* the decrease-rate select box
    filtered,     \* the filtered table of the run
    authenticated, \* st.session_state.authenticated
    slot_ids,     \* st.session_state.slot_ids (empty until the first logged-in run)
    next_slot_id, \* st.session_state.next_slot_id
    file_widget,  \* the Optional uploaded file of each slot id
    sheet_widget, \* the two sheet select boxes of each slot id
    uploaded_files, \* the (name, df, err) entry of each slot, of the run
    history,      \* st.session_state.history
    recorded      \* history variable: the keys of all the entries ever appended

colVars == <<columns, candidates, found>>
joinVars == <<xls, main_sheet, master_sheet, extracted>>
aggVars == <<valid_frames, merged, search_query, selected_filter, selected_decrease,
             filtered>>
sessVars == <<authenticated, slot_ids, next_slot_id, file_widget, sheet_widget,
              uploaded_files, history, recorded>>
vars == <<pc, colVars, joinVars, aggVars, sessVars>>

None == << >>
Some(v) == << v >>

Range(s) == {s[i] : i \in DOMAIN s}
Min(S) == CHOOSE x \in S : \A y \in S : x <= y
Max(S) == CHOOSE x \in S : \A y \in S : x >= y

\* Sequences over S of length 0..n
SeqsUpTo(S, n) == UNION {[1..k -> S] : k \in 0..n}
\* Sequences over S of length 0..n without repetition
DistinctSeqsUpTo(S, n) ==
    {s \in SeqsUpTo(S, n) : \A i, j \in DOMAIN s : i # j => s[i] # s[j]}

(***************************************************************************)
(* Python string primitives used by the script                             *)
(***************************************************************************)
UPPER == <<"A","B","C","D","E","F","G","H","I","J","K","L","M",
           "N","O","P","Q","R","S","T","U","V","W","X","Y","Z">>
LOWER == <<"a","b","c","d","e","f","g","h","i","j","k","l","m",
           "n","o","p","q","r","s","t","u","v","w","x","y","z">>

\* str.lower, one character
LowerChar(c) ==
    IF \E i \in DOMAIN UPPER : UPPER[i] = c
    THEN LOWER[CHOOSE i \in DOMAIN UPPER : UPPER[i] = c]
    ELSE c

\* str.lower
Lower(s) == [i \in DOMAIN s |-> LowerChar(s[i])]

IsSpace(c) == c = " "

RECURSIVE LStrip(_)
LStrip(s) == IF s # << >> /\ IsSpace(Head(s)) THEN LStrip(Tail(s)) ELSE s

RECURSIVE RStrip(_)
RStrip(s) ==
    IF s # << >> /\ IsSpace(s[Len(s)]) THEN RStrip(SubSeq(s, 1, Len(s) - 1)) ELSE s

\* str.strip
Strip(s) == RStrip(LStrip(s))

(***************************************************************************)
(* Column detection                                                        *)
(***************************************************************************)
\* The alias lists, transliterated; the order and the case pattern of the
\* source lists are kept (two aliases of _JAN_CANDIDATES differ by case only).
_JAN_CANDIDATES ==
    << <<"J","A","N","c">>, <<"J","A","N">>, <<"j","a","n","c">>,
       <<"j","a","n","_","c">>, <<"b","a","r">>, <<"b","c">>, <<"c","o","d","e">> >>
_PRODUCT_CANDIDATES ==
    << <<"n","a","m","e">>, <<"h","i","n">>, <<"s","e","i">>, <<"n","o">>,
       <<"s","h","o">>, <<"a","i","t">>, <<"i","t","e","m">>, <<"p","r","o","d">> >>
_QTY_CANDIDATES ==
    << <<"k","o","s","u">>, <<"s","u","r","y","o">>, <<"z","s","u">>, <<"z","a","i">>,
       <<"s","t","o","c","k">>, <<"q","u","a","n">>, <<"q","t","y">> >>
_SHELF_CANDIDATES ==
    << <<"t","a","n","a","b","a","n">>, <<"t","a","n","a">>, <<"s","h","e","l","f">>,
       <<"r","o","k","e">>, <<"l","o","c">>, <<"h","a","i","c","h","i">>, <<"u","r","i","b","a">> >>

\* lower_map = {c.strip().lower(): c for c in columns}: the keys, and the value
\* of a key (a later column overwrites an earlier one with the same key)
LowerMapKeys(cols) == {Lower(Strip(cols[i])) : i \in DOMAIN cols}
LowerMapGet(cols, k) == cols[Max({i \in DOMAIN cols : Lower(Strip(cols[i])) = k})]

\* A plausible bug: the first column of the table that matches any alias wins
FindColumnByTableOrder(cols, cands) ==
    LET hits == {i \in DOMAIN cols :
                    \E j \in DOMAIN cands : Lower(cands[j]) = Lower(Strip(cols[i]))}
    IN  IF hits = {} THEN None ELSE Some(cols[Min(hits)])

\* _find_column: the loop over the candidates returns at the first alias found
_find_column(cols, cands) ==
    LET hits == {j \in DOMAIN cands : Lower(cands[j]) \in LowerMapKeys(cols)}
    IN  IF hits = {} THEN None
        ELSE Some(LowerMapGet(cols, Lower(cands[Min(hits)])))

ColumnsIdle == columns = << >> /\ candidates = << >> /\ found = None

(***************************************************************************)
(* Cells of a sheet, as pandas.read_excel yields them                      *)
(***************************************************************************)
NaN == [t |-> "nan", n |-> 0, s |-> << >>]
IntCell(n) == [t |-> "int", n |-> n, s |-> << >>]
\* the float tenths / 10
FloatCell(tenths) == [t |-> "float", n |-> tenths, s |-> << >>]
StrCell(s) == [t |-> "str", n |-> 0, s |-> s]

\* pd.notna
notna(c) == c.t # "nan"

DIGITS == <<"0","1","2","3","4","5","6","7","8","9">>
IsDigit(c) == \E i \in DOMAIN DIGITS : DIGITS[i] = c
DigitVal(c) == (CHOOSE i \in DOMAIN DIGITS : DIGITS[i] = c) - 1

RECURSIVE ParseDigits(_)
ParseDigits(s) ==
    IF s = << >> THEN 0
    ELSE 10 * ParseDigits(SubSeq(s, 1, Len(s) - 1)) + DigitVal(s[Len(s)])

AllDigits(s) == s # << >> /\ \A i \in DOMAIN s : IsDigit(s[i])
IsIntLiteral(s) == AllDigits(s) \/ (s # << >> /\ Head(s) = "-" /\ AllDigits(Tail(s)))
ParseInt(s) == IF Head(s) = "-" THEN 0 - ParseDigits(Tail(s)) ELSE ParseDigits(s)

\* pd.to_numeric(..., errors="coerce") of one cell: a number stays, a text
\* that is an integer literal is parsed, any other text (the texts of this
\* model hold a letter) and a missing cell become NaN
to_numeric(c) ==
    IF c.t = "str"
    THEN IF IsIntLiteral(c.s) THEN IntCell(ParseInt(c.s)) ELSE NaN
    ELSE c

\* .astype(int) of a number: a float is truncated toward zero
astype_int(c) ==
    IF c.t = "float"
    THEN IF c.n >= 0 THEN c.n \div 10 ELSE 0 - ((0 - c.n) \div 10)
    ELSE c.n

\* pd.to_numeric(col, errors="coerce").fillna(0).astype(int), one cell
CoerceQty(c) ==
    LET x == to_numeric(c)
    IN  astype_int(IF notna(x) THEN x ELSE IntCell(0))

(***************************************************************************)
(* Code-point order of strings (sort_values, groupby)                      *)
(***************************************************************************)
CODEPOINTS ==
    <<" ", "-">> \o DIGITS \o UPPER \o <<"_">> \o LOWER \o <<"~">>
Ord(c) == CHOOSE i \in DOMAIN CODEPOINTS : CODEPOINTS[i] = c

RECURSIVE StrLess(_, _)
StrLess(a, b) ==
    IF b = << >> THEN FALSE
    ELSE IF a = << >> THEN TRUE
    ELSE IF Head(a) = Head(b) THEN StrLess(Tail(a), Tail(b))
    ELSE Ord(Head(a)) < Ord(Head(b))

StrLeq(a, b) == a = b \/ StrLess(a, b)

RECURSIVE SortedStrs(_)
SortedStrs(S) ==
    IF S = {} THEN << >>
    ELSE LET m == CHOOSE x \in S : \A y \in S : StrLeq(x, y)
         IN  <<m>> \o SortedStrs(S \ {m})

RECURSIVE SumSeq(_)
SumSeq(s) == IF s = << >> THEN 0 ELSE Head(s) + SumSeq(Tail(s))

(***************************************************************************)
(* Sheet Joiner: _extract_and_merge                                        *)
(***************************************************************************)
\* "（不明：マスター未登録）": above every ASCII name in code-point order
UNKNOWN_NAME == <<"~","u","n","k">>
\* "-": the shelf of a row without one
NO_SHELF == <<"-">>

ColIndex(cols, h) == CHOOSE i \in DOMAIN cols : cols[i] = h

\* The error texts of _extract_and_merge, as records
ReadError(which, sheet) == [kind |-> "read", sheet_kind |-> which, sheet |-> sheet]
MissingColumn(which, sheet, field, headers) ==
    [kind |-> "column", sheet_kind |-> which, sheet |-> sheet,
     field |-> field, headers |-> headers]

\* main_data: the key, quantity (and shelf) columns of the main sheet, the
\* quantity coerced, the rows without a key dropped
MainData(df_main, jan_col_main, qty_col, shelf_col_main) ==
    LET cols == df_main.columns
        row(r) == [jan   |-> r[ColIndex(cols, jan_col_main[1])],
                   qty   |-> CoerceQty(r[ColIndex(cols, qty_col[1])]),
                   shelf |-> IF shelf_col_main # None
                             THEN r[ColIndex(cols, shelf_col_main[1])] ELSE NaN]
        rows == [i \in DOMAIN df_main.rows |-> row(df_main.rows[i])]
    IN  SelectSeq(rows, LAMBDA r : notna(r.jan))

\* A plausible bug: the duplicate keys of the master sheet are kept
KeepDuplicates(rows) == rows

\* master_data.drop_duplicates(subset=["JANコード"], keep="first")
DropDuplicates(rows) ==
    LET keep == {i \in DOMAIN rows : \A j \in 1..(i - 1) : rows[j].jan # rows[i].jan}
        RECURSIVE pick(_)
        pick(i) == IF i > Len(rows) THEN << >>
                   ELSE (IF i \in keep THEN <<rows[i]>> ELSE << >>) \o pick(i + 1)
    IN  pick(1)

\* master_data: the key, name (and shelf) columns of the master sheet, the rows
\* without a key or without a name dropped, then the first row of each key kept
MasterData(df_master, jan_col_master, product_col, shelf_col_master) ==
    LET cols == df_master.columns
        row(r) == [jan   |-> r[ColIndex(cols, jan_col_master[1])],
                   name  |-> r[ColIndex(cols, product_col[1])],
                   shelf |-> IF shelf_col_master # None
                             THEN r[ColIndex(cols, shelf_col_master[1])] ELSE NaN]
        rows == [i \in DOMAIN df_master.rows |-> row(df_master.rows[i])]
    IN  DropDuplicates(SelectSeq(rows, LAMBDA r : notna(r.jan) /\ notna(r.name)))

\* pd.merge(main_data, master_data, on="JANコード", how="left"), then the shelf
\* resolution (combine_first: the main sheet's value first), fillna("-") and
\* the name fillna: one row per pair of a main row and a master row with its
\* key, or one row with missing master values when there is none
MergeLeft(main_data, master_data, has_shelf_main, has_shelf_master) ==
    LET shelf(x, y) ==
            LET c == IF has_shelf_main /\ has_shelf_master
                     THEN (IF notna(x) THEN x ELSE y)
                     ELSE IF has_shelf_main THEN x
                     ELSE IF has_shelf_master THEN y
                     ELSE StrCell(NO_SHELF)
            IN  IF notna(c) THEN c.s ELSE NO_SHELF
        out(r, m) == [jan   |-> r.jan,
                      qty   |-> r.qty,
                      name  |-> IF notna(m.name) THEN m.name.s ELSE UNKNOWN_NAME,
                      shelf |-> shelf(r.shelf, m.shelf)]
        nomatch == [jan |-> NaN, name |-> NaN, shelf |-> NaN]
        matches(r) == SelectSeq(master_data, LAMBDA m : m.jan = r.jan)
        joined(r) == IF matches(r) = << >> THEN <<out(r, nomatch)>>
                     ELSE [k \in DOMAIN matches(r) |-> out(r, matches(r)[k])]
        RECURSIVE all(_)
        all(i) == IF i > Len(main_data) THEN << >>
                  ELSE joined(main_data[i]) \o all(i + 1)
    IN  all(1)

\* merged.groupby("商品名", as_index=False).agg({"個数": "sum", "棚番": "first"}):
\* one row per name, in name order; no shelf is missing after fillna("-"), so
\* "first" is the shelf of the first row of the group
GroupByName(merged_rows) ==
    LET names == SortedStrs({merged_rows[i].name : i \in DOMAIN merged_rows})
        group(n) == SelectSeq(merged_rows, LAMBDA r : r.name = n)
    IN  [k \in DOMAIN names |->
            [name  |-> names[k],
             qty   |-> SumSeq([i \in DOMAIN group(names[k]) |-> group(names[k])[i].qty]),
             shelf |-> group(names[k])[1].shelf]]

Failure(err) == [df |-> None, err |-> Some(err)]

ExtractMaster(wb, main_sh, master_sh, main_data, has_shelf_main) ==
    LET df_master == wb.sheets[master_sh]
        jan_col_master == _find_column(df_master.columns, _JAN_CANDIDATES)
        product_col == _find_column(df_master.columns, _PRODUCT_CANDIDATES)
        shelf_col_master == _find_column(df_master.columns, _SHELF_CANDIDATES)
    IN  IF ~df_master.readable THEN Failure(ReadError("master", master_sh))
        ELSE IF jan_col_master = None
        THEN Failure(MissingColumn("master", master_sh, "jan", df_master.columns))
        ELSE IF product_col = None
        THEN Failure(MissingColumn("master", master_sh, "name", df_master.columns))
        ELSE LET master_data == MasterData(df_master, jan_col_master, product_col,
                                           shelf_col_master)
                 merged_rows == MergeLeft(main_data, master_data, has_shelf_main,
                                          shelf_col_master # None)
             IN  [df |-> Some(GroupByName(merged_rows)), err |-> None]

\* _extract_and_merge(xls, main_sheet, master_sheet) -> (DataFrame, error)
_extract_and_merge(wb, main_sh, master_sh) ==
    LET df_main == wb.sheets[main_sh]
        jan_col_main == _find_column(df_main.columns, _JAN_CANDIDATES)
        qty_col == _find_column(df_main.columns, _QTY_CANDIDATES)
        shelf_col_main == _find_column(df_main.columns, _SHELF_CANDIDATES)
    IN  IF ~df_main.readable THEN Failure(ReadError("main", main_sh))
        ELSE IF jan_col_main = None
        THEN Failure(MissingColumn("main", main_sh, "jan", df_main.columns))
        ELSE IF qty_col = None
        THEN Failure(MissingColumn("main", main_sh, "qty", df_main.columns))
        ELSE ExtractMaster(wb, main_sh, master_sh,
                           MainData(df_main, jan_col_main, qty_col, shelf_col_main),
                           shelf_col_main # None)

(***************************************************************************)
(* Snapshot Aggregator: the script from "merged = ..." to the sort         *)
(***************************************************************************)
\* col_labels: one label f"{file_no}番目({fname})" per usable snapshot
ColLabels(frames) ==
    [i \in DOMAIN frames |-> [file_no |-> frames[i].file_no, fname |-> frames[i].fname]]

\* The names of the outer merge of all frames on the product name
MergedNames(frames) ==
    UNION {{frames[i].df[r].name : r \in DOMAIN frames[i].df} : i \in DOMAIN frames}

\* The cell of product n in the column of frame f after the outer merge: its
\* quantity there, NaN when the frame has no row of that name
MergedCell(f, n) ==
    LET hits == {r \in DOMAIN f.df : f.df[r].name = n}
    IN  IF hits = {} THEN NaN ELSE IntCell(f.df[CHOOSE r \in hits : TRUE].qty)

\* A shelf value that the collection loop accepts: pd.notna, not "-", and
\* str(...).lower() != "nan"
UsableShelf(s) == s # NO_SHELF /\ Lower(s) # <<"n","a","n">>

\* shelf_mapping.get(n, "-") after the loop over the frames in order: each
\* frame's usable shelf overwrites the entry of its product
ShelfMapping(frames, n) ==
    LET src == {i \in DOMAIN frames :
                  \E r \in DOMAIN frames[i].df :
                     frames[i].df[r].name = n /\ UsableShelf(frames[i].df[r].shelf)}
    IN  IF src = {} THEN NO_SHELF
        ELSE LET f == frames[Max(src)]
             IN  f.df[CHOOSE r \in DOMAIN f.df : f.df[r].name = n].shelf

\* round(num / den) to the nearest integer, ties to even (den > 0); the
\* script formats a binary float, which can differ from this on an exact tie
RoundDiv(num, den) ==
    LET q == num \div den
        r == num % den
    IN  IF 2 * r > den \/ (2 * r = den /\ q % 2 = 1) THEN q + 1 ELSE q

NO_RATE == [text |-> "-", tenths |-> 0]
\* f"{rate:.1f}%": the rate in tenths of a percent
Percent(tenths) == [text |-> "%", tenths |-> tenths]

\* The floor of _calc_decrease_rate: at or below it the rate is "-"
RATE_FLOOR == 10

\* _calc_decrease_rate(row): the displayed rate
_calc_decrease_rate(prev, curr) ==
    IF prev <= RATE_FLOOR THEN NO_RATE
    ELSE Percent(RoundDiv((prev - curr) * 1000, prev))

\* _calc_decrease_val(row): the raw rate ((prev - curr) / prev) * 100.0 as the
\* fraction num / den, 0.0 when prev <= 0
_calc_decrease_val(prev, curr) ==
    IF prev <= 0 THEN [num |-> 0, den |-> 1]
    ELSE [num |-> (prev - curr) * 100, den |-> prev]

\* A plausible bug: the difference taken against the previous snapshot
DiffFromPrevious(qtys) == qtys[Len(qtys)] - qtys[Len(qtys) - 1]

\* merged[newest_col] - merged[oldest_col]
Diff(qtys) == qtys[Len(qtys)] - qtys[1]

\* A plausible bug: the flag taken after fillna(0), from the quantity
IsNewAfterFill(cell) == ~notna(cell) \/ cell.n = 0

\* merged[oldest_col].isna(), taken before fillna(0)
IsNew(cell) == ~notna(cell)

\* One row of merged, before the sort
MergedRow(frames, n) ==
    LET cells == [i \in DOMAIN frames |-> MergedCell(frames[i], n)]
        qtys == [i \in DOMAIN frames |-> IF notna(cells[i]) THEN cells[i].n ELSE 0]
    IN  [name   |-> n,
         shelf  |-> ShelfMapping(frames, n),
         qtys   |-> qtys,
         _is_new |-> IsNew(cells[1]),
         diff   |-> Diff(qtys),
         rate   |-> _calc_decrease_rate(qtys[1], qtys[Len(qtys)]),
         _decrease_rate_val |-> _calc_decrease_val(qtys[1], qtys[Len(qtys)])]

\* The key order of sort_values(["棚番", "商品名"])
RowLeq(a, b) ==
    StrLess(a.shelf, b.shelf) \/ (a.shelf = b.shelf /\ StrLeq(a.name, b.name))

RECURSIVE SortRows(_)
SortRows(S) ==
    IF S = {} THEN << >>
    ELSE LET m == CHOOSE x \in S : \A y \in S : RowLeq(x, y)
         IN  <<m>> \o SortRows(S \ {m})

\* merged: the table of the run, for len(valid_frames) >= 2
Aggregate(frames) ==
    [col_labels |-> ColLabels(frames),
     rows |-> SortRows({MergedRow(frames, n) : n \in MergedNames(frames)})]

NoTable == [col_labels |-> << >>, rows |-> << >>]

(***************************************************************************)
(* Filter Evaluator: the "フィルタ適用" block                               *)
(***************************************************************************)
\* The options of the two select boxes, in the order of the script
filter_options ==
    <<"none", "restocked", "new", "out_of_stock", "1-9", "10-19", "20-29", "30-39", "40+">>
decrease_options == <<"none", "10", "20", "30", "40", "50", "75">>

\* sub occurs in s
Contains(s, sub) ==
    \E i \in 0..(Len(s) - Len(sub)) : SubSeq(s, i + 1, i + Len(sub)) = sub

\* Series.str.contains(q, case=False) for a keyword without regex characters
ContainsNoCase(s, q) == Contains(Lower(s), Lower(q))

\* 1. the keyword mask (product name or shelf); no mask for an empty keyword
TextPred(r, q) ==
    q = << >> \/ ContainsNoCase(r.name, q) \/ ContainsNoCase(r.shelf, q)

\* 2. the stock mask of the selected option
BucketPred(r, f) ==
    LET latest_stock == r.qtys[Len(r.qtys)]
        oldest == r.qtys[1]
    IN  CASE f = "restocked"    -> oldest = 0 /\ latest_stock >= 1 /\ ~r._is_new
          [] f = "new"          -> r._is_new /\ latest_stock >= 1
          [] f = "out_of_stock" -> latest_stock = 0
          [] f = "1-9"          -> latest_stock >= 1 /\ latest_stock <= 9
          [] f = "10-19"        -> latest_stock >= 10 /\ latest_stock <= 19
          [] f = "20-29"        -> latest_stock >= 20 /\ latest_stock <= 29
          [] f = "30-39"        -> latest_stock >= 30 /\ latest_stock <= 39
          [] f = "40+"          -> latest_stock >= 40
          [] OTHER              -> TRUE

\* The threshold of a decrease option, in percent
Threshold(d) ==
    CASE d = "10" -> 10 [] d = "20" -> 20 [] d = "30" -> 30
      [] d = "40" -> 40 [] d = "50" -> 50 [] d = "75" -> 75

\* 3. the decrease mask: _decrease_rate_val >= threshold
RatePred(r, d) ==
    d = "none" \/
    r._decrease_rate_val.num >= Threshold(d) * r._decrease_rate_val.den

TextFilter(rows, q) == SelectSeq(rows, LAMBDA r : TextPred(r, q))
BucketFilter(rows, f) == SelectSeq(rows, LAMBDA r : BucketPred(r, f))
RateFilter(rows, d) == SelectSeq(rows, LAMBDA r : RatePred(r, d))

\* A plausible bug: the decrease mask indexes merged, not the rows filtered
\* so far
ApplyFiltersRateOnMerged(rows, q, f, d) ==
    IF d = "none" THEN BucketFilter(TextFilter(rows, q), f) ELSE RateFilter(rows, d)

\* filtered: the three masks applied one after the other to a copy of merged
ApplyFilters(rows, q, f, d) == RateFilter(BucketFilter(TextFilter(rows, q), f), d)

(***************************************************************************)
(* The session: st.session_state, the widgets and the script               *)
(*                                                                         *)
(* Every event on the page sets a widget or the session state and makes    *)
(* the script run again from its top (pc = "rerun"); a run ends at the     *)
(* login form (pc = "login"), at st.stop() of the main area                *)
(* (pc = "stopped") or at the end of the script (pc = "shown").            *)
(***************************************************************************)
\* "マスター", "マスタ" and "master", the words _find_master_sheet looks for
MASTER_KANA == <<"M","S","T","-">>
MASTA_KANA == <<"M","S","T">>
MASTER_WORD == <<"m","a","s","t","e","r">>

\* _find_master_sheet: the first sheet name with one of the words
_find_master_sheet(sheet_names) ==
    LET hits == {i \in DOMAIN sheet_names :
                    \/ Contains(sheet_names[i], MASTER_KANA)
                    \/ Contains(sheet_names[i], MASTA_KANA)
                    \/ Contains(Lower(sheet_names[i]), MASTER_WORD)}
    IN  IF hits = {} THEN None ELSE Some(sheet_names[Min(hits)])

SheetNames(wb) == [i \in DOMAIN wb.sheets |-> wb.sheets[i].name]

\* master_default_idx (sheets are counted from 1 here, from 0 in the script)
MasterDefaultIdx(sheet_names) ==
    LET auto_master == _find_master_sheet(sheet_names)
    IN  IF auto_master # None
        THEN Min({i \in DOMAIN sheet_names : sheet_names[i] = auto_master[1]})
        ELSE IF Len(sheet_names) > 1 THEN 2 ELSE 1

\* The two select boxes of a slot: None until they are drawn
NoSelection == [main |-> None, master |-> None]
\* st.selectbox(..., index=default): the option the box holds, or the
\* default one when it is drawn for the first time
SelectBox(state, default) == IF state = None THEN default ELSE state[1]
\* The select boxes of a slot as a run leaves them
Selected(file, sel) ==
    IF file = None \/ ~file[1].readable THEN NoSelection
    ELSE [main   |-> Some(SelectBox(sel.main, 1)),
          master |-> Some(SelectBox(sel.master, MasterDefaultIdx(SheetNames(file[1]))))]

\* The entries of uploaded_files: (name, df, err)
NoUpload == [name |-> None, df |-> None, err |-> None]
\* str(e) of an exception raised while the workbook is opened
ExcelFileError == [kind |-> "exception"]

\* One turn of the loop over the slots: the entry appended to uploaded_files
SlotEntry(file, sel) ==
    IF file = None THEN NoUpload
    ELSE LET wb == file[1]
             sheet_names == SheetNames(wb)
             main == SelectBox(sel.main, 1)
             master == SelectBox(sel.master, MasterDefaultIdx(sheet_names))
             res == _extract_and_merge(wb, main, master)
         IN  IF ~wb.readable
             THEN [name |-> Some(wb.name), df |-> None, err |-> Some(ExcelFileError)]
             ELSE [name |-> Some(wb.name), df |-> res.df, err |-> res.err]

\* A plausible bug: the collection stops at the first file with an error
RECURSIVE CollectUntilError(_, _)
CollectUntilError(uploaded, idx) ==
    IF idx > Len(uploaded) THEN << >>
    ELSE LET u == uploaded[idx]
         IN  IF u.name = None THEN CollectUntilError(uploaded, idx + 1)
             ELSE IF u.err # None THEN << >>
             ELSE <<[file_no |-> idx, fname |-> u.name[1], df |-> u.df[1]]>>
                      \o CollectUntilError(uploaded, idx + 1)

\* valid_frames: (idx + 1, name, df) of every entry with a file and no error
RECURSIVE CollectValid(_, _)
CollectValid(uploaded, idx) ==
    IF idx > Len(uploaded) THEN << >>
    ELSE LET u == uploaded[idx]
         IN  (IF u.name = None \/ u.err # None THEN << >>
              ELSE <<[file_no |-> idx, fname |-> u.name[1], df |-> u.df[1]]>>)
                 \o CollectValid(uploaded, idx + 1)

\* A plausible bug: one usable snapshot is enough for the comparison
AnySnapshot(frames) == Len(frames) < 1

\* len(valid_frames) < 2: the main area stops before the aggregation
InsufficientSnapshots(frames) == Len(frames) < 2

\* file_names_key
FileNamesKey(frames) == [i \in DOMAIN frames |-> frames[i].fname]

\* merged.drop(columns=["_is_new", "_decrease_rate_val"]).copy()
HistoryTable(table) ==
    [col_labels |-> table.col_labels,
     rows |-> [k \in DOMAIN table.rows |->
                  [name |-> table.rows[k].name, shelf |-> table.rows[k].shelf,
                   qtys |-> table.rows[k].qtys, diff |-> table.rows[k].diff,
                   rate |-> table.rows[k].rate]]]

\* The dict appended to the history (the timestamp, a reading of the wall
\* clock, is left out)
HistoryEntry(frames, table) ==
    [_key |-> FileNamesKey(frames),
     file_count |-> Len(frames),
     file_names |-> FileNamesKey(frames),
     product_count |-> Len(table.rows),
     dataframe |-> HistoryTable(table)]

already_saved(h, file_names_key) == \E i \in DOMAIN h : h[i]._key = file_names_key

\* A plausible bug: the entry is appended whether or not its key is saved
AppendAlways(h, frames, table) == Append(h, HistoryEntry(frames, table))

\* The history save block
SaveHistory(h, frames, table) ==
    IF already_saved(h, FileNamesKey(frames)) THEN h
    ELSE Append(h, HistoryEntry(frames, table))

\* rename_mapping[c] of the file column at position idx (from 0) of the n
\* file columns of the PDF table: "zaiko" (stock), "kyu-zaiko" (old stock),
\* "shin-zaiko" (new stock), f"chukan-zaiko{idx}" (stock in between)
PdfColumn(n, idx) ==
    IF n = 1 THEN [label |-> "zaiko", idx |-> None]
    ELSE IF idx = 0 THEN [label |-> "kyu-zaiko", idx |-> None]
    ELSE IF idx = n - 1 THEN [label |-> "shin-zaiko", idx |-> None]
    ELSE [label |-> "chukan-zaiko", idx |-> Some(idx)]

\* rename(columns=rename_mapping) of a table: the columns of the product
\* name, the shelf, the difference and the rate keep their names
RenameColumns(df) ==
    [df EXCEPT !.col_labels =
        [k \in DOMAIN df.col_labels |-> PdfColumn(Len(df.col_labels), k - 1)]]

\* A plausible bug: the columns of the table handed in are renamed in place
CreatePdfInPlace(df) ==
    LET pdf_df == RenameColumns(df)
    IN  [df |-> pdf_df, pdf_df |-> pdf_df]

\* _create_pdf: df is the table handed in as the call leaves it, pdf_df the
\* table that is laid out in the document (a copy with renamed columns)
_create_pdf(df) ==
    LET pdf_df == RenameColumns(df)
    IN  [df |-> df, pdf_df |-> pdf_df]

\* The history display: each entry's table is shown and handed to
\* _create_pdf for its download button
ShowHistory(h) ==
    [i \in DOMAIN h |-> [h[i] EXCEPT !.dataframe = _create_pdf(h[i].dataframe).df]]

Opt(S) == {None} \cup {Some(x) : x \in S}

\* The script has drawn its page and waits for an event
Waiting == authenticated /\ pc \in {"shown", "stopped"}

\* The script runs with nobody logged in: it stops at the login form.  The
\* widgets of the page are not drawn, and the framework drops their values.
LoginScreen ==
    /\ pc = "rerun" /\ ~authenticated
    /\ pc' = "login"
    /\ file_widget' = [sid \in DOMAIN file_widget |-> None]
    /\ sheet_widget' = [sid \in DOMAIN sheet_widget |-> NoSelection]
    /\ uploaded_files' = << >> /\ valid_frames' = << >>
    /\ merged' = NoTable /\ filtered' = << >>
    /\ search_query' = << >> /\ selected_filter' = "none" /\ selected_decrease' = "none"
    /\ UNCHANGED <<authenticated, slot_ids, next_slot_id, history, recorded>>
    /\ UNCHANGED <<colVars, joinVars>>

\* The login form is submitted; _verify accepts the credentials or not
Login ==
    /\ pc = "login"
    /\ \E ok \in BOOLEAN :
          /\ authenticated' = ok
          /\ pc' = IF ok THEN "rerun" ELSE "login"
    /\ UNCHANGED <<slot_ids, next_slot_id, file_widget, sheet_widget, uploaded_files,
                   history, recorded, colVars, joinVars, aggVars>>

\* The script runs from the session initialisation to its end
ScriptRun ==
    /\ pc = "rerun" /\ authenticated
    /\ slot_ids' = IF slot_ids = << >> THEN <<0, 1>> ELSE slot_ids
    /\ next_slot_id' = IF slot_ids = << >> THEN 2 ELSE next_slot_id
    /\ file_widget' = [sid \in Range(slot_ids') |->
                          IF sid \in DOMAIN file_widget THEN file_widget[sid] ELSE None]
    /\ sheet_widget' = [sid \in Range(slot_ids') |->
                           Selected(file_widget'[sid],
                                    IF sid \in DOMAIN sheet_widget
                                    THEN sheet_widget[sid] ELSE NoSelection)]
    /\ uploaded_files' = [pos \in DOMAIN slot_ids' |->
                             SlotEntry(file_widget'[slot_ids'[pos]],
                                       sheet_widget'[slot_ids'[pos]])]
    /\ valid_frames' = CollectValid(uploaded_files', 1)
    /\ IF InsufficientSnapshots(valid_frames')
       THEN /\ pc' = "stopped"
            /\ merged' = NoTable /\ filtered' = << >>
            /\ search_query' = << >>
            /\ selected_filter' = "none" /\ selected_decrease' = "none"
            /\ UNCHANGED <<history, recorded>>
       ELSE /\ pc' = "shown"
            /\ merged' = Aggregate(valid_frames')
            /\ filtered' = ApplyFilters(merged'.rows, search_query, selected_filter,
                                        selected_decrease)
            /\ history' = ShowHistory(SaveHistory(history, valid_frames', merged'))
            /\ recorded' = recorded \cup
                              {history'[i]._key : i \in (DOMAIN history') \ (DOMAIN history)}
            /\ UNCHANGED <<search_query, selected_filter, selected_decrease>>
    /\ UNCHANGED <<authenticated, colVars, joinVars>>

\* The script is about to run again: the variables of the last run are gone
Restart ==
    /\ pc' = "rerun"
    /\ uploaded_files' = << >> /\ valid_frames' = << >>
    /\ merged' = NoTable /\ filtered' = << >>

\* An event that changes the widgets fw and sw and nothing else
WidgetEvent(fw, sw) ==
    /\ file_widget' = fw /\ sheet_widget' = sw
    /\ Restart
    /\ UNCHANGED <<search_query, selected_filter, selected_decrease>>
    /\ UNCHANGED <<authenticated, slot_ids, next_slot_id, history, recorded,
                   colVars, joinVars>>

\* A file is put into the uploader of slot sid; the select boxes of the slot
\* keep their values or fall back to their defaults
UploadFile(sid, wb) ==
    /\ Waiting /\ sid \in Range(slot_ids)
    /\ \E sel \in {NoSelection, sheet_widget[sid]} :
          WidgetEvent([file_widget EXCEPT ![sid] = Some(wb)],
                      [sheet_widget EXCEPT ![sid] = sel])

\* The file of slot sid is taken out of its uploader
RemoveFile ==
    /\ Waiting
    /\ \E sid \in Range(slot_ids) :
          /\ file_widget[sid] # None
          /\ WidgetEvent([file_widget EXCEPT ![sid] = None],
                         [sheet_widget EXCEPT ![sid] = NoSelection])

HasSheets(sid) == file_widget[sid] # None /\ file_widget[sid][1].readable

\* A sheet is picked in the main sheet select box of a slot
SelectMainSheet ==
    /\ Waiting
    /\ \E sid \in Range(slot_ids) :
          /\ HasSheets(sid)
          /\ \E i \in DOMAIN file_widget[sid][1].sheets :
                WidgetEvent(file_widget, [sheet_widget EXCEPT ![sid].main = Some(i)])

\* A sheet is picked in the master sheet select box of a slot
SelectMasterSheet ==
    /\ Waiting
    /\ \E sid \in Range(slot_ids) :
          /\ HasSheets(sid)
          /\ \E i \in DOMAIN file_widget[sid][1].sheets :
                WidgetEvent(file_widget, [sheet_widget EXCEPT ![sid].master = Some(i)])

\* An event that changes the session state only
SessionEvent ==
    /\ Restart
    /\ UNCHANGED <<search_query, selected_filter, selected_decrease>>
    /\ UNCHANGED <<file_widget, sheet_widget, recorded, colVars, joinVars>>

\* The slots of the sessions explored, and the cap of next_slot_id, which has
\* no bound in the script
MaxSlots == 3

\* The add button: _add_slot, then st.rerun()
AddSlot ==
    /\ Waiting /\ next_slot_id < MaxSlots
    /\ slot_ids' = Append(slot_ids, next_slot_id)
    /\ next_slot_id' = next_slot_id + 1
    /\ SessionEvent
    /\ UNCHANGED <<authenticated, history>>

\* The delete button of a slot (drawn when there are more than 2 slots):
\* _remove_slot, then st.rerun()
RemoveSlot ==
    /\ Waiting /\ Len(slot_ids) > 2
    /\ \E slot_id \in Range(slot_ids) :
          slot_ids' = IF Len(slot_ids) <= 2 THEN slot_ids
                      ELSE SelectSeq(slot_ids, LAMBDA s : s # slot_id)
    /\ SessionEvent
    /\ UNCHANGED <<authenticated, next_slot_id, history>>

\* The logout button
Logout ==
    /\ Waiting
    /\ authenticated' = FALSE
    /\ SessionEvent
    /\ UNCHANGED <<slot_ids, next_slot_id, history>>

\* The clear button (drawn at the end of the script when the history is not
\* empty): the history is emptied, then st.rerun()
ClearHistory ==
    /\ Waiting /\ pc = "shown" /\ history # << >>
    /\ history' = << >>
    /\ SessionEvent
    /\ UNCHANGED <<authenticated, slot_ids, next_slot_id>>

\* An event without effect on the state (a download button)
Rerun ==
    /\ Waiting
    /\ SessionEvent
    /\ UNCHANGED <<authenticated, slot_ids, next_slot_id, history>>

QueryInputs == {<< >>, <<"B">>, <<"C">>}

\* The filter widgets (drawn after the aggregation) are set to q, f, d
FilterEvent(q, f, d) ==
    /\ Waiting /\ pc = "shown"
    /\ search_query' = q
    /\ selected_filter' = f
    /\ selected_decrease' = d
    /\ Restart
    /\ UNCHANGED <<authenticated, slot_ids, next_slot_id, file_widget, sheet_widget,
                   history, recorded, colVars, joinVars>>

\* The keyword is edited
SetSearchQuery ==
    \E q \in QueryInputs : FilterEvent(q, selected_filter, selected_decrease)

\* An option of the stock select box is chosen
SelectFilter ==
    \E f \in Range(filter_options) : FilterEvent(search_query, f, selected_decrease)

\* An option of the decrease-rate select box is chosen
SelectDecrease ==
    \E d \in Range(decrease_options) : FilterEvent(search_query, selected_filter, d)

(***************************************************************************)
(* Workbooks of the bounded specifications                                 *)
(***************************************************************************)
NameA == <<"A","b">>
NameB == <<"b">>
NameZ == <<"z">>
KeyA == StrCell(<<"k","1">>)
KeyB == StrCell(<<"k","2">>)
KeyZ == StrCell(<<"k","3">>)

MainSheetName == <<"S","1">>
MasterSheetName == <<"M","a","s","t","e","r">>
StockHeaders == << <<"J","A","N">>, <<" ","Q","t","y">>, <<"S","h","e","l","f">> >>
MasterHeaders == << <<"j","a","n","c">>, <<"N","a","m","e"," ">> >>

ShelfCell(s) == IF s = NO_SHELF THEN NaN ELSE StrCell(s)

\* A workbook with a stock sheet of up to three products (an Optional
\* quantity and a shelf each) and a master sheet that names the three
SnapshotWorkbook(fname, qa, sa, qb, sb, qz, sz) ==
    [name |-> fname, readable |-> TRUE,
     sheets |-> <<
        [name |-> MainSheetName, readable |-> TRUE, columns |-> StockHeaders,
         rows |-> (IF qa = None THEN << >> ELSE << <<KeyA, IntCell(qa[1]), ShelfCell(sa)>> >>)
               \o (IF qb = None THEN << >> ELSE << <<KeyB, IntCell(qb[1]), ShelfCell(sb)>> >>)
               \o (IF qz = None THEN << >> ELSE << <<KeyZ, IntCell(qz[1]), ShelfCell(sz)>> >>)],
        [name |-> MasterSheetName, readable |-> TRUE, columns |-> MasterHeaders,
         rows |-> << <<KeyA, StrCell(NameA)>>, <<KeyB, StrCell(NameB)>>,
                     <<KeyZ, StrCell(NameZ)>> >>] >>]

\* A file that openpyxl cannot open
BrokenWorkbook(fname) == [name |-> fname, readable |-> FALSE, sheets |-> << >>]

\* The state of the session parts before the first logged-in run
SessionIdle ==
    /\ authenticated = FALSE /\ slot_ids = << >> /\ next_slot_id = 0
    /\ file_widget = << >> /\ sheet_widget = << >> /\ uploaded_files = << >>
    /\ history = << >> /\ recorded = {}
AggIdle ==
    /\ valid_frames = << >> /\ merged = NoTable /\ filtered = << >>
    /\ search_query = << >> /\ selected_filter = "none" /\ selected_decrease = "none"

\* A logged-in session with the workbooks wbs in its slots, about to run
LoggedInWith(wbs) ==
    /\ pc = "rerun"
    /\ authenticated = TRUE
    /\ slot_ids = [i \in DOMAIN wbs |-> i - 1]
    /\ next_slot_id = Len(wbs)
    /\ file_widget = [sid \in 0..(Len(wbs) - 1) |-> wbs[sid + 1]]
    /\ sheet_widget = [sid \in 0..(Len(wbs) - 1) |-> NoSelection]
    /\ uploaded_files = << >>
    /\ history = << >> /\ recorded = {}
    /\ AggIdle

(***************************************************************************)
(* SpecJoin: _extract_and_merge applied to bounded workbooks               *)
(***************************************************************************)
MaxMainRows == 2
MaxMasterRows == 2

QtyInputs == {IntCell(2), IntCell(-1), FloatCell(25), StrCell(<<"x">>), NaN}
NameInputs == {StrCell(<<"P">>), StrCell(<<"Q">>)}

\* rows of a main sheet (key, quantity): every quantity with the first key,
\* one with the second, one without a key
MainRowInputs ==
    {<<StrCell(<<"k","1">>), q>> : q \in QtyInputs}
        \cup {<<StrCell(<<"k","2">>), IntCell(2)>>, <<NaN, IntCell(2)>>}
\* rows of a master sheet (key, product name)
MasterRowInputs ==
    {<<StrCell(<<"k","1">>), n>> : n \in NameInputs \cup {NaN}}
        \cup {<<StrCell(<<"k","2">>), StrCell(<<"P">>)>>, <<NaN, StrCell(<<"P">>)>>}

MainHeaders == << <<"J","A","N">>, <<" ","Q","t","y">> >>

JoinWorkbook(main_rows, master_rows) ==
    [name |-> "a.xlsx", readable |-> TRUE,
     sheets |-> << [name |-> MainSheetName, readable |-> TRUE,
                    columns |-> MainHeaders, rows |-> main_rows],
                   [name |-> MasterSheetName, readable |-> TRUE,
                    columns |-> MasterHeaders, rows |-> master_rows] >>]

NoWorkbook == [name |-> "", readable |-> FALSE, sheets |-> << >>]
NotExtracted == [df |-> None, err |-> None]
JoinIdle ==
    /\ xls = NoWorkbook /\ main_sheet = 0 /\ master_sheet = 0
    /\ extracted = NotExtracted

InitJoin ==
    /\ pc = "start"
    /\ ColumnsIdle /\ AggIdle /\ SessionIdle
    /\ \E mr \in SeqsUpTo(MainRowInputs, MaxMainRows) :
       \E ms \in SeqsUpTo(MasterRowInputs, MaxMasterRows) :
          xls = JoinWorkbook(mr, ms)
    /\ main_sheet = 1
    /\ master_sheet = 2
    /\ extracted = NotExtracted

ExtractAndMerge ==
    /\ pc = "start"
    /\ extracted' = _extract_and_merge(xls, main_sheet, master_sheet)
    /\ pc' = "done"
    /\ UNCHANGED <<xls, main_sheet, master_sheet, colVars, aggVars, sessVars>>

NextJoin == ExtractAndMerge

SpecJoin == InitJoin /\ [][NextJoin]_vars

(***************************************************************************)
(* SpecAgg: one run of the script over 2..MaxSnapshots bounded snapshots   *)
(***************************************************************************)
MaxSnapshots == 3

AggQtyInputs == {0, 2, 5}
\* (quantity of the first product, quantity of the second)
AggProfileInputs == Opt(AggQtyInputs) \X Opt({2})

SnapshotNames == <<"a.xlsx", "b.xlsx", "c.xlsx", "d.xlsx">>

InitAgg ==
    /\ ColumnsIdle /\ JoinIdle
    /\ \E n \in 2..MaxSnapshots : \E ps \in [1..n -> AggProfileInputs] :
          LoggedInWith([i \in 1..n |->
              Some(SnapshotWorkbook(SnapshotNames[i], ps[i][1], <<"b","2">>,
                                    ps[i][2], NO_SHELF, None, NO_SHELF))])

NextAgg == ScriptRun

SpecAgg == InitAgg /\ [][NextAgg]_vars

(***************************************************************************)
(* SpecJoinShelf: _extract_and_merge applied to bounded workbooks whose    *)
(* two sheets have a shelf column                                          *)
(***************************************************************************)
ShelfInputs == {NaN, StrCell(<<"b","2">>), StrCell(<<"c","1">>)}

\* rows of a main sheet (key, quantity, shelf)
ShelfMainRowInputs ==
    {<<StrCell(k), IntCell(2), sh>> : k \in {<<"k","1">>, <<"k","2">>}, sh \in ShelfInputs}
\* rows of a master sheet (key, product name, shelf): the two keys are keys
\* of one product
ShelfMasterRowInputs ==
    {<<StrCell(<<"k","1">>), StrCell(<<"P">>), NaN>>,
     <<StrCell(<<"k","2">>), StrCell(<<"P">>), NaN>>,
     <<StrCell(<<"k","2">>), StrCell(<<"P">>), StrCell(<<"m","1">>)>>}

ShelfMasterHeaders == MasterHeaders \o << <<"T","a","n","a">> >>

ShelfJoinWorkbook(main_rows, master_rows) ==
    [name |-> "a.xlsx", readable |-> TRUE,
     sheets |-> << [name |-> MainSheetName, readable |-> TRUE,
                    columns |-> StockHeaders, rows |-> main_rows],
                   [name |-> MasterSheetName, readable |-> TRUE,
                    columns |-> ShelfMasterHeaders, rows |-> master_rows] >>]

InitJoinShelf ==
    /\ pc = "start"
    /\ ColumnsIdle /\ AggIdle /\ SessionIdle
    /\ \E mr \in SeqsUpTo(ShelfMainRowInputs, MaxMainRows) :
       \E ms \in SeqsUpTo(ShelfMasterRowInputs, MaxMasterRows) :
          xls = ShelfJoinWorkbook(mr, ms)
    /\ main_sheet = 1
    /\ master_sheet = 2
    /\ extracted = NotExtracted

NextJoinShelf == ExtractAndMerge

SpecJoinShelf == InitJoinShelf /\ [][NextJoinShelf]_vars

(***************************************************************************)
(* SpecShelf: one run over 2..MaxSnapshots snapshots in which the shelf    *)
(* of a product differs from snapshot to snapshot                          *)
(***************************************************************************)
\* The first product in a snapshot: not there (None), there without a shelf
\* (NO_SHELF), or there on one of two shelves; the second product is in
\* every snapshot and has no shelf
ShelfProfileInputs == Opt({NO_SHELF, <<"b","2">>, <<"c","1">>})

ShelfWorkbook(fname, sa) ==
    IF sa = None
    THEN SnapshotWorkbook(fname, None, NO_SHELF, Some(2), NO_SHELF, None, NO_SHELF)
    ELSE SnapshotWorkbook(fname, Some(2), sa[1], Some(2), NO_SHELF, None, NO_SHELF)

InitShelf ==
    /\ ColumnsIdle /\ JoinIdle
    /\ \E n \in 2..MaxSnapshots : \E ps \in [1..n -> ShelfProfileInputs] :
          LoggedInWith([i \in 1..n |-> Some(ShelfWorkbook(SnapshotNames[i], ps[i]))])

NextShelf == ScriptRun

SpecShelf == InitShelf /\ [][NextShelf]_vars

(***************************************************************************)
(* SpecFilter: two bounded snapshots aggregated, then filtered             *)
(***************************************************************************)
\* (oldest, newest) quantities of the first product
ProfileAInputs == Opt({0, 10, 11, 40}) \X Opt({0, 1, 10, 40})
\* (oldest, newest, shelf) of the second product
ProfileBInputs ==
    { <<None, None, NO_SHELF>>, <<Some(40), Some(10), NO_SHELF>>,
      <<Some(0), Some(1), <<"c","1">>>>, <<None, Some(40), NO_SHELF>>,
      <<Some(40), Some(30), <<"c","1">>>> }

InitFilter ==
    /\ ColumnsIdle /\ JoinIdle
    /\ \E pa \in ProfileAInputs : \E pb \in ProfileBInputs :
          LoggedInWith(
            << Some(SnapshotWorkbook("a.xlsx", pa[1], <<"b","2">>, pb[1], pb[3],
                                     Some(40), NO_SHELF)),
               Some(SnapshotWorkbook("b.xlsx", pa[2], <<"b","2">>, pb[2], pb[3],
                                     Some(20), NO_SHELF)) >>)

NextFilter == ScriptRun \/ SetSearchQuery \/ SelectFilter \/ SelectDecrease

SpecFilter == InitFilter /\ [][NextFilter]_vars

(***************************************************************************)
(* SpecSession: a session of two slots, from its first run on              *)
(***************************************************************************)
FileA == SnapshotWorkbook("a.xlsx", Some(5), <<"b","2">>, None, NO_SHELF, None, NO_SHELF)
FileB == SnapshotWorkbook("b.xlsx", Some(2), NO_SHELF, Some(2), NO_SHELF, None, NO_SHELF)
FileX == BrokenWorkbook("x.xlsx")
SessionFiles == {FileA, FileB, FileX}

\* The session as the framework creates it: nobody is logged in, the script
\* is about to run for the first time
InitSession ==
    /\ pc = "rerun"
    /\ ColumnsIdle /\ JoinIdle /\ AggIdle /\ SessionIdle

\* A file is put into the uploader of a slot
Upload == \E sid \in Range(slot_ids) : \E wb \in SessionFiles : UploadFile(sid, wb)

NextSession ==
    \/ LoginScreen \/ Login \/ ScriptRun
    \/ Upload \/ RemoveFile \/ SelectMainSheet \/ SelectMasterSheet
    \/ SetSearchQuery \/ ClearHistory \/ Logout \/ Rerun

SpecSession == InitSession /\ [][NextSession]_vars

(***************************************************************************)
(* SpecSlots: sessions of 2..MaxSlots slots with bounded files, their      *)
(* slots added and removed                                                 *)
(***************************************************************************)
\* A workbook whose stock sheet has no quantity column
NoQtyWorkbook(fname) ==
    [name |-> fname, readable |-> TRUE,
     sheets |-> << [name |-> MainSheetName, readable |-> TRUE,
                    columns |-> << <<"J","A","N">>, <<"S","h","e","l","f">> >>,
                    rows |-> << <<KeyA, StrCell(<<"b","2">>)>> >>],
                   [name |-> MasterSheetName, readable |-> TRUE,
                    columns |-> MasterHeaders,
                    rows |-> << <<KeyA, StrCell(NameA)>> >>] >>]

SlotInputs == {None, Some(FileA), Some(FileB), Some(FileX), Some(NoQtyWorkbook("c.xlsx"))}

InitSlots ==
    /\ ColumnsIdle /\ JoinIdle
    /\ \E n \in 2..MaxSlots : \E ws \in [1..n -> SlotInputs] : LoggedInWith(ws)

NextSlots == ScriptRun \/ AddSlot \/ RemoveSlot

SpecSlots == InitSlots /\ [][NextSlots]_vars

\* The input of the run: whether snapshot f has product n, and its quantity
\* there (0 when it has not)
PresentIn(f, n) == \E r \in DOMAIN f.df : f.df[r].name = n
InputQty(f, n) ==
    IF PresentIn(f, n) THEN f.df[CHOOSE r \in DOMAIN f.df : f.df[r].name = n].qty ELSE 0
OldestFrame == valid_frames[1]
NewestFrame == valid_frames[Len(valid_frames)]

\* C4: the table has one row per product of any snapshot, and the difference
\* of each row is the quantity in the newest snapshot minus the quantity in
\* the oldest (0 for a snapshot without the product), negative exactly when
\* the stock fell, whatever the snapshots in between hold.
C4_DeltaNewestMinusOldest ==
    pc = "shown" =>
        /\ {merged.rows[k].name : k \in DOMAIN merged.rows} = MergedNames(valid_frames)
        /\ \A k \in DOMAIN merged.rows :
              LET r == merged.rows[k]
                  new == InputQty(NewestFrame, r.name)
                  old == InputQty(OldestFrame, r.name)
              IN  /\ r.diff = new - old
                  /\ (r.diff < 0) <=> (new < old)

\* C4 witness: three snapshots, a product whose stock fell and whose interim
\* quantity differs from both ends, and a product missing from the oldest
C4_Witness ==
    /\ pc = "shown"
    /\ Len(valid_frames) >= 3
    /\ \E k \in DOMAIN merged.rows :
          LET r == merged.rows[k]
          IN  /\ r.diff < 0
              /\ InputQty(valid_frames[2], r.name) # InputQty(OldestFrame, r.name)
              /\ InputQty(valid_frames[2], r.name) # InputQty(NewestFrame, r.name)
    /\ \E k \in DOMAIN merged.rows :
          /\ ~PresentIn(OldestFrame, merged.rows[k].name)
          /\ merged.rows[k].diff > 0

OnlyStockFilter(f) ==
    search_query = << >> /\ selected_decrease = "none" /\ selected_filter = f

\* C3: of the rows with a newest quantity of 1 or more, the "new" option
\* accepts exactly the products absent from the oldest snapshot and the
\* "restocked" option exactly those present there with quantity 0; no row is
\* accepted by both.
C3_NewVersusRestocked ==
    pc = "shown" =>
        \A k \in DOMAIN merged.rows :
            LET r == merged.rows[k]
                absent == ~PresentIn(OldestFrame, r.name)
                zero == PresentIn(OldestFrame, r.name) /\ InputQty(OldestFrame, r.name) = 0
            IN  InputQty(NewestFrame, r.name) >= 1 =>
                  /\ BucketPred(r, "new") <=> absent
                  /\ BucketPred(r, "restocked") <=> zero
                  /\ ~(BucketPred(r, "new") /\ BucketPred(r, "restocked"))
                  /\ OnlyStockFilter("new") => (r \in Range(filtered) <=> absent)
                  /\ OnlyStockFilter("restocked") => (r \in Range(filtered) <=> zero)

\* C3 witness: the "new" option is selected; it shows a product absent from
\* the oldest snapshot and hides a product that was there with quantity 0
C3_Witness ==
    /\ pc = "shown" /\ OnlyStockFilter("new")
    /\ \E k \in DOMAIN filtered :
          /\ ~PresentIn(OldestFrame, filtered[k].name)
          /\ InputQty(NewestFrame, filtered[k].name) >= 1
    /\ \E k \in DOMAIN merged.rows :
          LET r == merged.rows[k]
          IN  /\ r \notin Range(filtered)
              /\ PresentIn(OldestFrame, r.name)
              /\ InputQty(OldestFrame, r.name) = 0
              /\ InputQty(NewestFrame, r.name) >= 1

\* C2: every row whose displayed rate is "-" has the raw rate 0.0, and no
\* decrease option accepts it.
C2_NotApplicableExcluded ==
    pc = "shown" =>
        \A k \in DOMAIN merged.rows :
            LET r == merged.rows[k]
            IN  r.rate = NO_RATE =>
                  /\ r._decrease_rate_val.num = 0
                  /\ \A d \in Range(decrease_options) \ {"none"} : ~RatePred(r, d)
                  /\ selected_decrease # "none" => r \notin Range(filtered)

AllThree(r) ==
    /\ TextPred(r, search_query)
    /\ BucketPred(r, selected_filter)
    /\ RatePred(r, selected_decrease)

\* C6: the filtered table is the rows of the aggregated table that satisfy
\* the three predicates, in the order of the aggregated table, and the three
\* filters applied in any of the six orders give that same table.
C6_FilterOrderIrrelevant ==
    pc = "shown" =>
        LET T(x) == TextFilter(x, search_query)
            B(x) == BucketFilter(x, selected_filter)
            R(x) == RateFilter(x, selected_decrease)
            rows == merged.rows
        IN  /\ filtered = SelectSeq(rows, AllThree)
            /\ R(B(T(rows))) = filtered /\ R(T(B(rows))) = filtered
            /\ B(R(T(rows))) = filtered /\ B(T(R(rows))) = filtered
            /\ T(R(B(rows))) = filtered /\ T(B(R(rows))) = filtered

\* C6 witness: the three filters are set, two rows pass and one does not
C6_Witness ==
    /\ pc = "shown"
    /\ search_query # << >> /\ selected_filter # "none" /\ selected_decrease # "none"
    /\ Len(filtered) >= 2
    /\ Len(filtered) < Len(merged.rows)

\* The slot positions with a file, and those whose file is extracted without
\* an error (the workbook opens, and _extract_and_merge of the two selected
\* sheets reports none)
SlotFile(pos) == file_widget[slot_ids[pos]]
Loaded == {pos \in DOMAIN slot_ids : SlotFile(pos) # None}
ExtractionOf(pos) ==
    _extract_and_merge(SlotFile(pos)[1], sheet_widget[slot_ids[pos]].main[1],
                       sheet_widget[slot_ids[pos]].master[1])
Usable ==
    {pos \in Loaded : SlotFile(pos)[1].readable /\ ExtractionOf(pos).err = None}

\* C8: after a run, every slot has its own entry: a file whose extraction
\* fails has its name and its error and no table, every other file has its
\* table; the usable snapshots are exactly the files extracted without error,
\* numbered by slot position and in slot order, and the aggregation takes the
\* first of them as the oldest and the last as the newest.
C8_BadFileSkipped ==
    pc \in {"shown", "stopped"} =>
        LET res == [pos \in Loaded |-> ExtractionOf(pos)]
            usable == {pos \in Loaded : SlotFile(pos)[1].readable /\ res[pos].err = None}
        IN  /\ DOMAIN uploaded_files = DOMAIN slot_ids
            /\ \A pos \in DOMAIN slot_ids :
                  LET u == uploaded_files[pos]
                  IN  /\ pos \notin Loaded => u = NoUpload
                      /\ pos \in Loaded \ usable =>
                            /\ u.name = Some(SlotFile(pos)[1].name)
                            /\ u.err # None /\ u.df = None
                      /\ pos \in usable =>
                            /\ u.name = Some(SlotFile(pos)[1].name)
                            /\ u.err = None /\ u.df = res[pos].df
            /\ Len(valid_frames) = Cardinality(usable)
            /\ \A k \in DOMAIN valid_frames :
                  LET f == valid_frames[k]
                  IN  /\ f.file_no \in usable
                      /\ Cardinality({p \in usable : p <= f.file_no}) = k
                      /\ f.fname = SlotFile(f.file_no)[1].name
                      /\ f.df = uploaded_files[f.file_no].df[1]
            /\ pc = "shown" =>
                  LET oldest == [df |-> uploaded_files[Min(usable)].df[1]]
                      newest == [df |-> uploaded_files[Max(usable)].df[1]]
                  IN  \A k \in DOMAIN merged.rows :
                          LET r == merged.rows[k]
                          IN  /\ Len(r.qtys) = Cardinality(usable)
                              /\ r.qtys[1] = InputQty(oldest, r.name)
                              /\ r.qtys[Len(r.qtys)] = InputQty(newest, r.name)
                              /\ r.diff = InputQty(newest, r.name)
                                              - InputQty(oldest, r.name)

\* C8 witness: three slots, a file that cannot be opened between two good
\* ones; the two good ones are compared as snapshots 1 and 3
C8_Witness ==
    /\ pc = "shown"
    /\ Len(slot_ids) = 3
    /\ Usable = {1, 3} /\ 2 \in Loaded
    /\ ~SlotFile(2)[1].readable
    /\ uploaded_files[2].err = Some(ExcelFileError)
    /\ [k \in DOMAIN valid_frames |-> valid_frames[k].file_no] = <<1, 3>>
    /\ valid_frames[1].fname # valid_frames[2].fname

NoDuplicateKeys(h) == \A i, j \in DOMAIN h : i # j => h[i]._key # h[j]._key

\* C1: the history never holds two entries with the same key, and a run
\* whose usable snapshots have the key of an entry of the history leaves the
\* history as it is.
C1_NoDuplicateHistory ==
    [][ /\ NoDuplicateKeys(history')
        /\ ( /\ pc = "rerun" /\ authenticated
             /\ Len(valid_frames') >= 2
             /\ \E i \in DOMAIN history : history[i]._key = FileNamesKey(valid_frames') )
           => history' = history ]_vars

\* C1 witness: the page shows, after a change of the keyword, the snapshots
\* of the first of two entries of the history
C1_Witness ==
    /\ pc = "shown"
    /\ Len(history) >= 2
    /\ history[1]._key = FileNamesKey(valid_frames)
    /\ search_query # << >>

\* C9: a run with fewer than 2 usable snapshots stops before the aggregation
\* (no aggregated table, no filtered table) and leaves the history as it was.
C9_TooFewSnapshots ==
    [][ (pc = "rerun" /\ authenticated /\ Len(valid_frames') < 2)
           => /\ pc' = "stopped"
              /\ merged' = NoTable /\ filtered' = << >>
              /\ history' = history ]_vars

\* C9 witness: a run stopped with one usable snapshot and one file in error,
\* the history holding an entry
C9_Witness ==
    /\ pc = "stopped"
    /\ Len(valid_frames) = 1
    /\ \E pos \in DOMAIN uploaded_files : uploaded_files[pos].err # None
    /\ history # << >>

\* C10: an entry is appended to the history at most once per key in a
\* session: no step appends an entry whose key was appended before, also
\* after the history was cleared.
C10_AppendedOncePerKey ==
    [][ \A i \in (DOMAIN history') \ (DOMAIN history) :
            history'[i]._key \notin recorded ]_vars

\* C11: an entry of the history is never changed once it is appended: at
\* the end of the run that appends it (the run's PDF exports included) it is
\* the entry built from that run's snapshots and table, and its key, its
\* counts and its table stay as they are through every later run, filter
\* event, PDF export and aggregation, whatever becomes of the live table;
\* entries leave the history through the clear button only.
C11_EntriesNeverChange ==
    [][ \/ ClearHistory
        \/ /\ Len(history') >= Len(history)
           /\ \A i \in DOMAIN history : history'[i] = history[i]
           /\ \A i \in (DOMAIN history') \ (DOMAIN history) :
                 history'[i] = HistoryEntry(valid_frames', merged') ]_vars

\* C11 witness: the page shows, after a change of the keyword, a table other
\* than the one of the first entry of the history, and the PDF of both
\* entries was made
C11_Witness ==
    /\ pc = "shown"
    /\ Len(history) >= 2
    /\ history[Len(history)]._key = FileNamesKey(valid_frames)
    /\ history[1].dataframe # HistoryTable(merged)
    /\ search_query # << >>

\* C12: every row that the extraction of a workbook returns has a quantity
\* >= 0, whatever the quantity cells of the main sheet hold (text, nothing,
\* fractions, negative numbers).
C12_QuantityNotNegative ==
    (pc = "done" /\ extracted.df # None)
        => \A r \in DOMAIN extracted.df[1] : extracted.df[1][r].qty >= 0

\* The usable snapshots, oldest first, that hold product n with a shelf
\* other than "-"
ShelvedIn(n) ==
    {i \in DOMAIN valid_frames :
        \E r \in DOMAIN valid_frames[i].df :
           /\ valid_frames[i].df[r].name = n
           /\ valid_frames[i].df[r].shelf # NO_SHELF}

\* The shelf of product n in usable snapshot i
ShelfIn(i, n) ==
    LET df == valid_frames[i].df
    IN  df[CHOOSE r \in DOMAIN df : df[r].name = n].shelf

\* C13: the shelf of an aggregated row is the shelf of its product in the
\* oldest usable snapshot that holds the product with a shelf other than "-",
\* and "-" when no usable snapshot does.
C13_OldestShelfWins ==
    pc = "shown" =>
        \A k \in DOMAIN merged.rows :
            LET n == merged.rows[k].name
            IN  merged.rows[k].shelf =
                    IF ShelvedIn(n) = {} THEN NO_SHELF ELSE ShelfIn(Min(ShelvedIn(n)), n)

\* The shelf of the joined row of main row i in the workbooks of
\* SpecJoinShelf (the shelf is the third column of both sheets): the main
\* sheet's shelf, else the shelf of the first master row with the key, else "-"
JoinedShelf(i) ==
    LET rows == xls.sheets[1].rows
        master_rows == xls.sheets[2].rows
        hits == {j \in DOMAIN master_rows : master_rows[j][1] = rows[i][1]}
    IN  IF notna(rows[i][3]) THEN rows[i][3].s
        ELSE IF hits # {} /\ notna(master_rows[Min(hits)][3])
        THEN master_rows[Min(hits)][3].s
        ELSE NO_SHELF

\* The name of the joined row of main row i in the workbooks of SpecJoinShelf
JoinedName(i) ==
    LET rows == xls.sheets[1].rows
        master_rows == xls.sheets[2].rows
        hits == {j \in DOMAIN master_rows : master_rows[j][1] = rows[i][1]}
    IN  IF hits = {} THEN UNKNOWN_NAME ELSE master_rows[Min(hits)][2].s

\* The first shelf other than "-" among the joined rows named n, in source
\* order; "-" when there is none
FirstShelved(n) ==
    LET S == {i \in DOMAIN xls.sheets[1].rows :
                 JoinedName(i) = n /\ JoinedShelf(i) # NO_SHELF}
    IN  IF S = {} THEN NO_SHELF ELSE JoinedShelf(Min(S))

\* C14: the shelf of a row that the extraction returns is the first shelf
\* other than "-" among the joined rows of its product name, in source order,
\* and "-" only when none of these rows has a shelf.
C14_FirstShelvedRowWins ==
    (pc = "done" /\ extracted.df # None) =>
        \A r \in DOMAIN extracted.df[1] :
            extracted.df[1][r].shelf = FirstShelved(extracted.df[1][r].name)

\* The rows of the two sheets of the joined workbook; in the workbooks of
\* SpecJoin the key is the first column and the quantity or name the second
JoinMainRows == xls.sheets[1].rows
JoinMasterRows == xls.sheets[2].rows
KeptMainRows == {i \in DOMAIN JoinMainRows : notna(JoinMainRows[i][1])}

RECURSIVE SumCoerced(_)
SumCoerced(S) ==
    IF S = {} THEN 0
    ELSE LET i == CHOOSE x \in S : TRUE
         IN  CoerceQty(JoinMainRows[i][2]) + SumCoerced(S \ {i})

\* The name of the first master row with the key of main row i, if that row
\* has one; the unknown name when no master row has the key
FirstMasterName(i) ==
    LET hits == {j \in DOMAIN JoinMasterRows : JoinMasterRows[j][1] = JoinMainRows[i][1]}
    IN  IF hits = {} THEN Some(UNKNOWN_NAME)
        ELSE IF notna(JoinMasterRows[Min(hits)][2])
        THEN Some(JoinMasterRows[Min(hits)][2].s) ELSE None

\* The name of the first master row that has the key of main row i and a
\* product name; the unknown name when there is no such master row
FirstNamedMasterName(i) ==
    LET hits == {j \in DOMAIN JoinMasterRows :
                    /\ JoinMasterRows[j][1] = JoinMainRows[i][1]
                    /\ notna(JoinMasterRows[j][2])}
    IN  IF hits = {} THEN Some(UNKNOWN_NAME) ELSE Some(JoinMasterRows[Min(hits)][2].s)

\* Every kept main row is counted once, in the output row named dest(i)
ContributesOnce(dest(_)) ==
    (pc = "done" /\ extracted.err = None) =>
        LET df == extracted.df[1]
        IN  /\ \A r, t \in DOMAIN df : df[r].name = df[t].name => r = t
            /\ \A i \in KeptMainRows : \E r \in DOMAIN df : Some(df[r].name) = dest(i)
            /\ \A r \in DOMAIN df :
                  df[r].qty = SumCoerced({i \in KeptMainRows : dest(i) = Some(df[r].name)})
            /\ SumSeq([r \in DOMAIN df |-> df[r].qty]) = SumCoerced(KeptMainRows)

\* C5 as stated: every main row with a key is counted once, in the output
\* row named after the first master row with that key (the unknown name when
\* no master row has the key), so the quantities sum to the same total.
C5_Original == ContributesOnce(FirstMasterName)

\* C5 amended: as C5_Original, with the first master row that has the key and
\* a product name (the unknown name when no master row with a product name
\* has the key).
C5_ContributesOnce == ContributesOnce(FirstNamedMasterName)

\* C5 witness: the master sheet has two named rows with one key, a main row
\* has that key, and another main row has a key the master sheet lacks
C5_Witness ==
    /\ pc = "done" /\ extracted.err = None
    /\ \E j, k \in DOMAIN JoinMasterRows :
          /\ j < k
          /\ JoinMasterRows[j][1] = JoinMasterRows[k][1]
          /\ notna(JoinMasterRows[j][2]) /\ notna(JoinMasterRows[k][2])
          /\ JoinMasterRows[j][2] # JoinMasterRows[k][2]
          /\ \E i \in KeptMainRows : JoinMainRows[i][1] = JoinMasterRows[j][1]
    /\ \E i \in KeptMainRows : FirstNamedMasterName(i) = Some(UNKNOWN_NAME)
    /\ \E r \in DOMAIN extracted.df[1] : extracted.df[1][r].name = UNKNOWN_NAME

(***************************************************************************)
(* SpecColumns: _find_column applied to bounded tables and alias lists     *)
(***************************************************************************)
MaxCols == 3

HeaderInputs ==
    { <<"J","A","N">>, <<" ","j","a","n"," ">>, <<"J","a","n","c">>,
      <<"q","t","y">>, <<"Q","T","Y"," ">>, <<"m","e","m","o">> }

CandidateInputs ==
    { _JAN_CANDIDATES, _QTY_CANDIDATES,
      << <<"q","t","y">>, <<"J","A","N">> >>,
      << <<" ","j","a","n">>, <<"Q","t","y">> >> }

InitColumns ==
    /\ pc = "start"
    /\ JoinIdle /\ AggIdle /\ SessionIdle
    /\ columns \in DistinctSeqsUpTo(HeaderInputs, MaxCols)
    /\ candidates \in CandidateInputs
    /\ found = None

FindColumn ==
    /\ pc = "start"
    /\ found' = _find_column(columns, candidates)
    /\ pc' = "done"
    /\ UNCHANGED <<columns, candidates, joinVars, aggVars, sessVars>>

NextColumns == FindColumn

SpecColumns == InitColumns /\ [][NextColumns]_vars

\* Headers h that alias a matches: equal after trimming h, ignoring case
AliasMatches(a, h) == Lower(a) = Lower(Strip(h))
MatchingAliases(cols, cands) ==
    {j \in DOMAIN cands : \E i \in DOMAIN cols : AliasMatches(cands[j], cols[i])}

Reorderings(s) ==
    {t \in [DOMAIN s -> Range(s)] : \A x \in Range(s) : \E i \in DOMAIN t : t[i] = x}

\* C7: the result is a header of the table matched by the first alias (in
\* alias-list order) that matches any header, trimmed and case-folded; which
\* alias that is does not depend on the order of the columns; the result is
\* None exactly when no alias matches.
C7_FirstAliasWins ==
    pc = "done" =>
        LET m == MatchingAliases(columns, candidates)
        IN  /\ (m = {}) <=> (found = None)
            /\ m # {} =>
                  /\ found[1] \in Range(columns)
                  /\ AliasMatches(candidates[Min(m)], found[1])
                  /\ \A p \in Reorderings(columns) :
                        LET r == _find_column(p, candidates)
                        IN  r # None /\ AliasMatches(candidates[Min(m)], r[1])

\* C7 witness: two aliases match, and the column of the later alias comes
\* first in the table
C7_Witness ==
    /\ pc = "done"
    /\ found # None
    /\ \E i, k \in DOMAIN columns : \E j \in DOMAIN candidates :
          /\ i < k
          /\ columns[k] = found[1]
          /\ j > Min(MatchingAliases(columns, candidates))
          /\ AliasMatches(candidates[j], columns[i])
          /\ columns[k] # Strip(columns[k])
====
